---- MODULE Spec2Model ----
(***************************************************************************)
(* Model of src/src/transport/websocket.ts: the WebsocketTransport port    *)
(* probe loop and the Client request-correlation / connection / token      *)
(* lifecycle built on top of it.                                           *)
(*                                                                         *)
(* JavaScript is single threaded: every action below is one callback run   *)
(* to completion (an API call made by the application, a timer firing, a   *)
(* socket event).  The continuation of an `await` is a microtask: it runs  *)
(* before the next timer or socket event, which the guard Quiet enforces.  *)
(***************************************************************************)
EXTENDS Naturals, Integers, Sequences, FiniteSets, TLC

\* ------------------------------------------------------------------ bounds
MaxAttempts == 2      \* connect() attempts that reach transport.connect()
MaxRequests == 2      \* request() calls made directly by the application
MaxLogins   == 2      \* login() calls
MaxTimers   == 2      \* refresh timers scheduled
MaxDestroys == 1      \* destroy() calls

\* -------------------------------------------------------- program constants
NumPorts == 10
BasePort == 6463

None == 0             \* undefined: no promise, no socket, no nonce, no timer

VARIABLES
    ws,                 \* WebsocketTransport.ws: socket id or None
    socks,              \* sockets opened so far: [port, st, ready, call]
    tcalls,             \* WebsocketTransport.connect() calls: [i, st, probed, sock, threw]
    closeWaiters,       \* destroy() calls inside WebsocketTransport.close()
    connectionPromise,  \* Client.connectionPromise: attempt id or None
    attempts,           \* promises created by Client.connect()
    closeListeners,     \* transport.once("close") listeners of Client.connect()
    _nonceMap,          \* Client._nonceMap: set of nonces with an entry
    reqs,               \* futures returned by Client.request(), by nonce
    accessToken, refreshToken, tokenType,
    refreshTimeout,     \* Client.refreshTimeout: refresh timer id or None
    timers,             \* refresh timers created by setTimeout: [st, born]
    refreshes,          \* refreshAccessToken() runs: [timer, st, reply, born]
    logins,             \* login() calls: [pc, scopes, rpc, await, conn, ready, err, reply, born]
    destroys            \* destroy() calls: "closing" | "done"

transportVars == <<ws, socks, tcalls, closeWaiters>>
connVars      == <<connectionPromise, attempts, closeListeners>>
reqVars       == <<_nonceMap, reqs>>
tokenVars     == <<accessToken, refreshToken, tokenType, refreshTimeout, timers, refreshes>>
vars == <<ws, socks, tcalls, closeWaiters, connectionPromise, attempts,
          closeListeners, _nonceMap, reqs, accessToken, refreshToken, tokenType,
          refreshTimeout, timers, refreshes, logins, destroys>>

\* ----------------------------------------------------------------- helpers
Ids(seq) == 1..Len(seq)

\* RPC error codes and messages used by the client
RPC_UNKNOWN_ERROR      == [code |-> "RPC_UNKNOWN_ERROR", message |-> "unknown"]
RPC_CONNECTION_TIMEOUT == [code |-> "RPC_CONNECTION_TIMEOUT", message |-> "Connection timed out"]
NoEndpointError        == [code |-> "Error", message |-> "Failed to connect to websocket"]
InvalidTokenResponse   == [code |-> "TypeError", message |-> "Invalid access token response!"]

\* Promise semantics: resolve()/reject() on a settled promise is a no-op.
Settle(p, st, err) == IF p.st = "pending" THEN [p EXCEPT !.st = st, !.err = err] ELSE p

Port(i) == BasePort + i


\* An `await` continuation is ready to run: login() awaiting a settled future.
Runnable(l) ==
    \/ logins[l].pc = "connect" /\ attempts[logins[l].await].st # "pending"
    \/ logins[l].pc \in {"authorize", "authenticate"} /\ reqs[logins[l].await].st # "pending"

\* No microtask is queued: timers and socket events may be delivered.
Quiet == \A l \in Ids(logins) : ~Runnable(l)

Init ==
    /\ ws = None
    /\ socks = <<>>
    /\ tcalls = <<>>
    /\ closeWaiters = {}
    /\ connectionPromise = None
    /\ attempts = <<>>
    /\ closeListeners = 0
    /\ _nonceMap = {}
    /\ reqs = <<>>
    /\ accessToken = None
    /\ refreshToken = None
    /\ tokenType = "Bearer"
    /\ refreshTimeout = None
    /\ timers = <<>>
    /\ refreshes = <<>>
    /\ logins = <<>>
    /\ destroys = <<>>

\* ------------------------------------------------ WebsocketTransport.connect
\* The loop of lines 10-34 awaits one probe at a time.  A probe that errors only
\* advances the loop counter, which nothing outside the loop reads, so the
\* refused probes of a call commute with every other callback: the model runs
\* them in the step of the probe that decides the call (the first candidate
\* that opens, or the tenth refusal).

\* Lines 38-52: the message/close/error handlers are put on this.ws.
AttachHandlers(ss, w) == [ss EXCEPT ![w].handlers = TRUE]

\* Lines 8-9: a call of connect(), before its first probe is decided.
NewTransportCall(a) ==
    [i |-> 0, st |-> "probing", probed |-> <<>>, sock |-> None, threw |-> FALSE, attempt |-> a]

\* The loop skips a candidate.
AdvanceSkips(c) == [c EXCEPT !.i = c.i + 2]

\* Line 10: the loop goes on to candidate c.i + 1 after a refused probe.
Advance(c) == [c EXCEPT !.i = c.i + 1]

\* Lines 10-34: the loop from iteration c.i on, when the first candidate that
\* opens is number `opens` (NumPorts: every candidate refuses).
RECURSIVE RunLoop(_, _)
RunLoop(c, opens) ==
    IF c.i >= NumPorts THEN c
    ELSE LET p == [c EXCEPT !.probed = Append(c.probed, Port(c.i))] IN
         IF c.i = opens THEN [p EXCEPT !.st = "opened"]
         ELSE RunLoop(Advance(p), opens)

\* Line 36 and lines 38-52 after a loop that opened nothing:
\* `if (!this.ws) reject(...)`, then the handlers are assigned to this.ws!, which
\* throws when this.ws is undefined and leaves the future unsettled otherwise.
LoopFailed(c, w) ==
    IF w = None
    THEN [c EXCEPT !.st = "rejected", !.threw = TRUE]
    ELSE [c EXCEPT !.st = "hung"]

\* Lines 29-33: the call keeps the socket, resolves and leaves the loop.
ProbeOpened(c, s) == [c EXCEPT !.st = "resolved", !.sock = s]

\* ------------------------------------------------------------ Client.connect
\* Line 393: the future connect() returns.

NewAttempt ==
    [st |-> "pending", err |-> RPC_UNKNOWN_ERROR, timer |-> "armed", listener |-> TRUE,
     call |-> Len(tcalls) + 1, joined |-> FALSE, ready |-> FALSE]

\* The guard always lets a new attempt start.
StartsAlways == TRUE

\* Line 393
StartsAttempt == connectionPromise = None

\* Lines 393, 431: the future connect() returns.
ConnectResult == IF StartsAttempt THEN Len(attempts) + 1 ELSE connectionPromise

\* Lines 392-432, shared by connect() and login().  `joined` records that a
\* later call was handed the future of this attempt.
DoConnect ==
    IF StartsAttempt
    THEN /\ Len(attempts) < MaxAttempts
         /\ attempts' = Append(attempts, NewAttempt)
         /\ connectionPromise' = Len(attempts) + 1
         /\ tcalls' = Append(tcalls, NewTransportCall(Len(attempts) + 1))
    ELSE /\ attempts' = [attempts EXCEPT ![connectionPromise].joined = TRUE]
         /\ UNCHANGED <<connectionPromise, tcalls>>

InFlight == {a \in Ids(attempts) : attempts[a].st = "pending"}

connect ==
    /\ DoConnect
    /\ UNCHANGED <<ws, socks, closeWaiters, closeListeners, reqVars, tokenVars,
                   logins, destroys>>

\* The attempt's `.catch(reject)` on the future of transport.connect() (line 428).
TransportRejected(as, a) ==
    [as EXCEPT ![a] = Settle(as[a], "rejected", NoEndpointError)]

\* The attempt resolves as soon as the transport reports open.
ResolvedOnOpen(as, a) == [as EXCEPT ![a] = Settle(as[a], "resolved", as[a].err)]

\* Line 428 observes only the rejection: a resolved transport.connect() leaves
\* the attempt waiting for READY.
TransportResolved(as, a) == as

\* Every candidate of call c refuses.
ProbeFail(c) ==
    /\ Quiet
    /\ tcalls[c].st = "probing"
    /\ tcalls' = [tcalls EXCEPT ![c] = LoopFailed(RunLoop(tcalls[c], NumPorts), ws)]
    /\ socks' = IF ws = None THEN socks ELSE AttachHandlers(socks, ws)
    /\ attempts' = IF ws = None THEN TransportRejected(attempts, tcalls[c].attempt)
                   ELSE attempts
    /\ UNCHANGED <<ws, closeWaiters, connectionPromise, closeListeners, reqVars, tokenVars,
                   logins, destroys>>

\* Line 12: the socket of the probe that opened.
NewSocket(c) ==
    [port |-> c.probed[Len(c.probed)], st |-> "open", ready |-> FALSE, handlers |-> FALSE]

\* Candidates 0..k-1 of call c refuse and candidate k opens.
ProbeOpen(c, k) ==
    /\ Quiet
    /\ tcalls[c].st = "probing"
    /\ LET s == Len(socks) + 1
           d == RunLoop(tcalls[c], k)
       IN /\ d.st = "opened"
          /\ ws' = s
          /\ socks' = AttachHandlers(Append(socks, NewSocket(d)), s)
          /\ tcalls' = [tcalls EXCEPT ![c] = ProbeOpened(d, s)]
    /\ attempts' = TransportResolved(attempts, tcalls[c].attempt)
    /\ UNCHANGED <<closeWaiters, connectionPromise, closeListeners, reqVars, tokenVars,
                   logins, destroys>>

\* Lines 399-406: the 10 second timer of attempt a fires.
ConnectTimeout(a) ==
    /\ Quiet
    /\ attempts[a].timer = "armed"
    /\ connectionPromise' = None
    /\ attempts' = [attempts EXCEPT
          ![a] = [Settle(attempts[a], "rejected", RPC_CONNECTION_TIMEOUT) EXCEPT !.timer = "fired"]]
    /\ UNCHANGED <<transportVars, closeListeners, reqVars, tokenVars,
                   logins, destroys>>

\* ------------------------------------------------------------ Client.request
\* Lines 264-274.  crypto.randomUUID() is a fresh nonce: the next index of reqs.
NewRequest(by, cmd) ==
    [st |-> "pending", err |-> RPC_UNKNOWN_ERROR, via |-> None, matched |-> 0, by |-> by,
     cmd |-> cmd, emitted |-> 0]

Register(by, cmd) ==
    /\ reqs' = Append(reqs, NewRequest(by, cmd))
    /\ _nonceMap' = _nonceMap \cup {Len(reqs) + 1}

request ==
    /\ Cardinality({r \in Ids(reqs) : reqs[r].by = None}) < MaxRequests
    /\ Register(None, "cmd")
    /\ UNCHANGED <<transportVars, connVars, tokenVars, logins, destroys>>

\* --------------------------------------- transport "message" (lines 213-234)
Cmds == {"DISPATCH", "REPLY"}
Evts == {"READY", "ERROR", "null"}
\* no nonce, a nonce the client never generated, or the nonce of a request
Nonces == {None, -1} \cup Ids(reqs)

RemoteError == [code |-> "data.code", message |-> "data.message"]

IsReady(m) == m.cmd = "DISPATCH" /\ m.evt = "READY"

\* Line 220
Matches(m) == m.nonce # None /\ m.nonce \in _nonceMap

\* Line 232: the envelope is emitted to the subscribers of its evt name.  The
\* statement follows the nonce match inside the else branch of line 219, so it
\* runs for every envelope that is not the READY dispatch.
Dispatched(m) == ~IsReady(m)

\* Lines 221-227: the entry's future is settled with the message.  `emitted`
\* counts the envelopes matched to the entry that line 232 also emitted.
SettleByMessage(r, m) ==
    IF m.evt = "ERROR"
    THEN [r EXCEPT !.err = RemoteError,
                   !.st = IF r.st = "pending" THEN "rejected" ELSE @,
                   !.via = IF r.st = "pending" THEN m.nonce ELSE @,
                   !.matched = @ + 1,
                   !.emitted = IF Dispatched(m) THEN @ + 1 ELSE @]
    ELSE [r EXCEPT !.st = IF r.st = "pending" THEN "resolved" ELSE @,
                   !.via = IF r.st = "pending" THEN m.nonce ELSE @,
                   !.matched = @ + 1,
                   !.emitted = IF Dispatched(m) THEN @ + 1 ELSE @]

\* The entry stays in the table after its future was settled.
AfterMatchKept(map, m) == map

\* Line 229
AfterMatch(map, m) == map \ {m.nonce}

\* The listener resolves without cancelling the timer.
OnConnectedKeepsTimer(a) == [Settle(a, "resolved", a.err) EXCEPT !.listener = FALSE]

\* Lines 409-426: the once("connected") listener of one attempt.
OnConnected(a) ==
    [Settle(a, "resolved", a.err) EXCEPT
        !.listener = FALSE,
        !.timer = IF a.timer = "armed" THEN "cleared" ELSE @]

Listening == {a \in Ids(attempts) : attempts[a].listener}

Message(s, m) ==
    /\ Quiet
    /\ socks[s].st \in {"open", "closing"} /\ socks[s].handlers
    /\ IF IsReady(m)
       THEN /\ socks' = [socks EXCEPT ![s].ready = TRUE]
            /\ attempts' = [a \in Ids(attempts) |->
                              [(IF a \in Listening THEN OnConnected(attempts[a])
                                ELSE attempts[a])
                               EXCEPT !.ready = @ \/ attempts[a].st = "pending"]]
            /\ connectionPromise' = IF Listening # {} THEN None ELSE connectionPromise
            /\ closeListeners' = closeListeners + Cardinality(Listening)
            /\ UNCHANGED reqVars
       ELSE /\ IF Matches(m)
               THEN /\ reqs' = [reqs EXCEPT ![m.nonce] = SettleByMessage(reqs[m.nonce], m)]
                    /\ _nonceMap' = AfterMatch(_nonceMap, m)
               ELSE UNCHANGED reqVars
            /\ UNCHANGED <<socks, connVars>>
    /\ UNCHANGED <<ws, tcalls, closeWaiters, tokenVars, logins, destroys>>

\* ------------------------------------------- transport "close" (lines 42-44)
CloseReasons == {"undefined", "string", "object"}

\* Lines 414-417
CloseError(reason) ==
    [code    |-> IF reason = "object" THEN "reason.code" ELSE "RPC_CONNECTION_ENDED",
     message |-> IF reason = "object" THEN "reason.message"
                 ELSE IF reason = "string" THEN "reason" ELSE "Connection ended"]

\* Lines 413-419: one entry of _nonceMap is rejected.
RejectByClose(r, reason) ==
    [r EXCEPT !.err = CloseError(reason),
              !.st = IF r.st = "pending" THEN "rejected" ELSE @]

\* Lines 412-422: the once("close") listeners installed by connect() run.
OnClose(rs, map, n, reason) ==
    [r \in Ids(rs) |-> IF n > 0 /\ r \in map THEN RejectByClose(rs[r], reason) ELSE rs[r]]

Pending == {r \in Ids(reqs) : reqs[r].st = "pending"}

SockClose(s, reason) ==
    /\ Quiet
    /\ socks[s].st \in {"open", "closing"}
    /\ socks' = [socks EXCEPT ![s].st = "closed"]
    /\ IF socks[s].handlers
       THEN /\ reqs' = OnClose(reqs, _nonceMap, closeListeners, reason)
            /\ closeListeners' = 0
            /\ destroys' = [d \in Ids(destroys) |->
                              IF d \in closeWaiters THEN "done" ELSE destroys[d]]
            /\ closeWaiters' = {}
       ELSE UNCHANGED <<reqs, closeListeners, destroys, closeWaiters>>
    /\ UNCHANGED <<ws, tcalls, connectionPromise, attempts, _nonceMap, tokenVars,
                   logins>>

\* Lines 46-52: a socket error after open closes this.ws; the socket then closes.
CloseSocket(ss, w) ==
    IF w # None /\ ss[w].st = "open" THEN [ss EXCEPT ![w].st = "closing"] ELSE ss

SockError(s) ==
    /\ Quiet
    /\ socks[s].st = "open" /\ socks[s].handlers
    /\ socks' = CloseSocket(CloseSocket(socks, ws), s)
    /\ UNCHANGED <<ws, tcalls, closeWaiters, connVars, reqVars, tokenVars,
                   logins, destroys>>

\* ------------------------------------- Client.hanleAccessTokenResponse (308-322)
TokenFields == {"access_token", "refresh_token", "expires_in", "token_type"}
TokenTypes  == {"data.token_type"}

\* The test of lines 309-314 without the refresh_token disjunct.
WellFormedLax(data) ==
    /\ "access_token" \in data.fields
    /\ "expires_in" \in data.fields
    /\ "token_type" \in data.fields

\* Lines 309-314
WellFormed(data) ==
    /\ "access_token" \in data.fields
    /\ "refresh_token" \in data.fields
    /\ "expires_in" \in data.fields
    /\ "token_type" \in data.fields

\* A reply of the token endpoint: the fields present, and their values.
TokenReplies ==
    {[fields |-> f, token |-> Len(timers) + 1, type |-> t] :
        f \in SUBSET TokenFields, t \in TokenTypes}

\* What the reply handed to hanleAccessTokenResponse looked like (history).
Shape(data) == IF data.fields = TokenFields THEN "complete" ELSE "incomplete"

\* `born`, here and in logins and refreshes: the destroy() calls made before
\* the timer was scheduled (the login or the refresh was started)
NewTimer == [st |-> "armed", born |-> Len(destroys)]

\* Lines 317-321 on a well-formed reply; the TypeError of line 315 leaves all as it was.
hanleAccessTokenResponse(data) ==
    IF WellFormed(data)
    THEN /\ accessToken' = data.token
         /\ refreshToken' = data.token
         /\ tokenType' = data.type
         /\ timers' = Append(timers, NewTimer)
         /\ refreshTimeout' = Len(timers) + 1
    ELSE UNCHANGED <<accessToken, refreshToken, tokenType, timers, refreshTimeout>>

\* ------------------------------------------------------ Client.login (438-448)
LoginOptions ==
    {[scopes |-> FALSE, rpc |-> FALSE], [scopes |-> TRUE, rpc |-> FALSE],
     [scopes |-> TRUE, rpc |-> TRUE]}

login(o) ==
    /\ Len(logins) < MaxLogins
    /\ DoConnect
    /\ logins' = Append(logins, [pc |-> "connect", scopes |-> o.scopes, rpc |-> o.rpc,
                                 await |-> ConnectResult, conn |-> ConnectResult,
                                 ready |-> 0, err |-> "none", reply |-> "none",
                                 born |-> Len(destroys)])
    /\ UNCHANGED <<ws, socks, closeWaiters, closeListeners, reqVars, tokenVars,
                   destroys>>

\* Lines 341-349: authorize() sends AUTHORIZE; lines 280-281: authenticate() sends
\* AUTHENTICATE.  Both await the reply.
SendAndAwait(l, pc) ==
    /\ Register(l, IF pc = "authorize" THEN "AUTHORIZE" ELSE "AUTHENTICATE")
    /\ logins' = [logins EXCEPT ![l].pc = pc, ![l].await = Len(reqs) + 1]

Fail(l, e) == logins' = [logins EXCEPT ![l].pc = "failed", ![l].err = e]

\* login() goes straight to `ready` whatever the options.
NeedsAuthNever(l) == FALSE

\* Line 441: authorization scopes were requested.
NeedsAuth(l) == logins[l].scopes

\* The continuation of an await of login(), authorize() or authenticate().
LoginStep(l) ==
    /\ Runnable(l)
    /\ \/ /\ logins[l].pc = "connect"
          /\ attempts[logins[l].await].st = "rejected"
          /\ Fail(l, attempts[logins[l].await].err.code)
          /\ UNCHANGED reqVars
       \/ /\ logins[l].pc = "connect"
          /\ attempts[logins[l].await].st = "resolved"
          /\ IF ~NeedsAuth(l)
             THEN /\ logins' = [logins EXCEPT ![l].pc = "done", ![l].ready = @ + 1]
                  /\ UNCHANGED reqVars
             ELSE IF logins[l].rpc
             THEN /\ logins' = [logins EXCEPT ![l].pc = "rpc"]
                  /\ UNCHANGED reqVars
             ELSE SendAndAwait(l, "authorize")
       \/ /\ logins[l].pc \in {"authorize", "authenticate"}
          /\ reqs[logins[l].await].st = "rejected"
          /\ Fail(l, reqs[logins[l].await].err.code)
          /\ UNCHANGED reqVars
       \/ /\ logins[l].pc = "authorize"
          /\ reqs[logins[l].await].st = "resolved"
          /\ logins' = [logins EXCEPT ![l].pc = "token"]
          /\ UNCHANGED reqVars
       \/ /\ logins[l].pc = "authenticate"
          /\ reqs[logins[l].await].st = "resolved"
          /\ logins' = [logins EXCEPT ![l].pc = "done", ![l].ready = @ + 1]
          /\ UNCHANGED reqVars
    /\ UNCHANGED <<transportVars, connVars, tokenVars, destroys>>

\* Lines 327-339: the reply of /oauth2/token/rpc arrives (ok), or the call fails.
RpcTokenReply(l, ok) ==
    /\ Quiet
    /\ logins[l].pc = "rpc"
    /\ IF ok THEN SendAndAwait(l, "authorize")
       ELSE Fail(l, "AxiosError") /\ UNCHANGED reqVars
    /\ UNCHANGED <<transportVars, connVars, tokenVars, destroys>>

\* Lines 351-366 then 447, 280-281: the reply of /oauth2/token arrives in authorize().
TokenReply(l, data) ==
    /\ Quiet
    /\ logins[l].pc = "token"
    /\ WellFormed(data) => Len(timers) < MaxTimers
    /\ hanleAccessTokenResponse(data)
    /\ IF WellFormed(data)
       THEN /\ Register(l, "AUTHENTICATE")
            /\ logins' = [logins EXCEPT ![l].pc = "authenticate", ![l].await = Len(reqs) + 1,
                                        ![l].reply = Shape(data)]
       ELSE /\ logins' = [logins EXCEPT ![l].pc = "failed", ![l].err = InvalidTokenResponse.code,
                                        ![l].reply = Shape(data)]
            /\ UNCHANGED reqVars
    /\ UNCHANGED <<transportVars, connVars, refreshes, destroys>>

\* ----------------------------------------- Client.refreshAccessToken (288-306)
\* Line 321: the refresh timer fires and starts the refresh credential exchange.
RefreshTimerFires(t) ==
    /\ Quiet
    /\ timers[t].st = "armed"
    /\ timers' = [timers EXCEPT ![t].st = "fired"]
    /\ refreshes' = Append(refreshes, [timer |-> t, st |-> "fetching", reply |-> "none",
                                        born |-> Len(destroys)])
    /\ UNCHANGED <<transportVars, connVars, reqVars, accessToken, refreshToken, tokenType,
                   refreshTimeout, logins, destroys>>

RefreshReply(r, data) ==
    /\ Quiet
    /\ refreshes[r].st = "fetching"
    /\ WellFormed(data) => Len(timers) < MaxTimers
    /\ hanleAccessTokenResponse(data)
    /\ refreshes' = [refreshes EXCEPT ![r].st = IF WellFormed(data) THEN "done" ELSE "failed",
                                      ![r].reply = Shape(data)]
    /\ UNCHANGED <<transportVars, connVars, reqVars, logins, destroys>>

\* ---------------------------------------------------- Client.destroy (453-461)
destroy ==
    /\ Len(destroys) < MaxDestroys
    /\ IF refreshTimeout # None
       THEN /\ timers' = [timers EXCEPT ![refreshTimeout].st =
                             IF @ = "armed" THEN "cleared" ELSE @]
            /\ refreshTimeout' = None
            /\ refreshToken' = None
       ELSE UNCHANGED <<timers, refreshTimeout, refreshToken>>
    \* WebsocketTransport.close, lines 62-67
    /\ closeWaiters' = closeWaiters \cup {Len(destroys) + 1}
    /\ socks' = CloseSocket(socks, ws)
    /\ destroys' = Append(destroys, "closing")
    /\ UNCHANGED <<ws, tcalls, connVars, reqVars, accessToken, tokenType, refreshes,
                   logins>>

\* ------------------------------------------------------------ specifications
Frames == [cmd : Cmds, evt : Evts, nonce : Nonces]

\* The READY dispatch, and the replies to the requests still waiting.
Answers ==
    {[cmd |-> "DISPATCH", evt |-> "READY", nonce |-> None]} \cup
    [cmd : {"REPLY"}, evt : {"ERROR", "null"}, nonce : _nonceMap \cap Pending]

\* Every callback of the client and the transport.
Next ==
    \/ connect
    \/ request
    \/ \E o \in LoginOptions : login(o)
    \/ \E l \in Ids(logins) : LoginStep(l)
    \/ \E l \in Ids(logins), ok \in BOOLEAN : RpcTokenReply(l, ok)
    \/ \E l \in Ids(logins), data \in TokenReplies : TokenReply(l, data)
    \/ \E t \in Ids(timers) : RefreshTimerFires(t)
    \/ \E r \in Ids(refreshes), data \in TokenReplies : RefreshReply(r, data)
    \/ destroy
    \/ \E c \in Ids(tcalls) : ProbeFail(c)
    \/ \E c \in Ids(tcalls), k \in 0..(NumPorts - 1) : ProbeOpen(c, k)
    \/ \E a \in Ids(attempts) : ConnectTimeout(a)
    \/ \E s \in Ids(socks), m \in Frames : Message(s, m)
    \/ \E s \in Ids(socks), reason \in CloseReasons : SockClose(s, reason)
    \/ \E s \in Ids(socks) : SockError(s)

Spec == Init /\ [][Next]_vars

\* The state space of Spec is the product of several concerns that the code keeps
\* apart; each is explored with the callbacks that can touch it.

\* SpecConn: an application that drives the connection and the correlation
\* engine itself, with connect() and request(), over a transport that may pass
\* any close reason and an endpoint that may send any frame.  The client never
\* reads which candidate port opened, so the endpoint listens on the first
\* candidate or on none.
NextConn ==
    \/ connect
    \/ request
    \/ \E c \in Ids(tcalls) : ProbeFail(c)
    \/ \E c \in Ids(tcalls) : ProbeOpen(c, 0)
    \/ \E a \in Ids(attempts) : ConnectTimeout(a)
    \/ \E s \in Ids(socks), m \in Frames : Message(s, m)
    \/ \E s \in Ids(socks), reason \in CloseReasons : SockClose(s, reason)
    \/ \E s \in Ids(socks) : SockError(s)

SpecConn == Init /\ [][NextConn]_vars

\* setTimeout: a timer that stays armed fires.
TimersFire == \E a \in Ids(attempts) : ConnectTimeout(a)

FairConn == SpecConn /\ WF_vars(TimersFire)

\* SpecProbe: the port probe of the transport, with the endpoint listening on
\* any of the ten candidates or on none, under an application that only connects.
NextProbe ==
    \/ connect
    \/ \E c \in Ids(tcalls) : ProbeFail(c)
    \/ \E c \in Ids(tcalls), k \in 0..(NumPorts - 1) : ProbeOpen(c, k)
    \/ \E a \in Ids(attempts) : ConnectTimeout(a)
    \/ \E s \in Ids(socks), m \in Answers : Message(s, m)
    \/ \E s \in Ids(socks) : SockClose(s, "undefined")
    \/ \E s \in Ids(socks) : SockError(s)

SpecProbe == Init /\ [][NextProbe]_vars

\* SpecToken: an application that uses login() and destroy() and awaits each
\* login() before the next one, against an endpoint that listens on the first
\* candidate or on none and answers what it was sent.
LoginsSettled == \A l \in Ids(logins) : logins[l].pc \in {"done", "failed"}

NextToken ==
    \/ \E o \in LoginOptions : LoginsSettled /\ login(o)
    \/ \E l \in Ids(logins) : LoginStep(l)
    \/ \E l \in Ids(logins), ok \in BOOLEAN : RpcTokenReply(l, ok)
    \/ \E l \in Ids(logins), data \in TokenReplies : TokenReply(l, data)
    \/ \E t \in Ids(timers) : RefreshTimerFires(t)
    \/ \E r \in Ids(refreshes), data \in TokenReplies : RefreshReply(r, data)
    \/ destroy
    \/ \E c \in Ids(tcalls) : ProbeFail(c)
    \/ \E c \in Ids(tcalls) : ProbeOpen(c, 0)
    \/ \E a \in Ids(attempts) : ConnectTimeout(a)
    \/ \E s \in Ids(socks), m \in Answers : Message(s, m)
    \/ \E s \in Ids(socks) : SockClose(s, "undefined")

SpecToken == Init /\ [][NextToken]_vars

\* SpecDestroy: an application that connects and tears down, against an
\* endpoint that listens on the first candidate or on none.
NextDestroy ==
    \/ connect
    \/ destroy
    \/ \E c \in Ids(tcalls) : ProbeFail(c)
    \/ \E c \in Ids(tcalls) : ProbeOpen(c, 0)
    \/ \E a \in Ids(attempts) : ConnectTimeout(a)
    \/ \E s \in Ids(socks), m \in Answers : Message(s, m)
    \/ \E s \in Ids(socks) : SockClose(s, "undefined")
    \/ \E s \in Ids(socks) : SockError(s)

SpecDestroy == Init /\ [][NextDestroy]_vars

\* WebSocket.close(): a socket that was asked to close emits its close event.
ClosingCloses == \E s \in Ids(socks) : socks[s].st = "closing" /\ SockClose(s, "undefined")

FairDestroy == SpecDestroy /\ WF_vars(TimersFire) /\ WF_vars(ClosingCloses)

\* ------------------------------------------------------------------- claims
\* C1: each request's future settles at most once; when it settles through a
\* reply, the reply carries the nonce generated for that request; the message
\* handler settles an entry at most once, because the entry leaves the table
\* when it is matched.
RequestSettledByOwnReply ==
    \A r \in Ids(reqs) :
        /\ reqs[r].matched <= 1
        /\ reqs[r].matched = 1 => r \notin _nonceMap
        /\ reqs[r].st = "resolved" => reqs[r].via = r
        /\ reqs[r].via # None => reqs[r].via = r /\ reqs[r].matched = 1 /\ reqs[r].st # "pending"

\* Two requests are outstanding and the reply to the second one arrives first.
WitnessOutOfOrderReply ==
    /\ Len(reqs) >= 2
    /\ reqs[2].st = "resolved" /\ reqs[2].via = 2
    /\ reqs[1].st = "pending" /\ 1 \in _nonceMap

\* C2: when the transport emits close on a connection whose READY handshake
\* was completed, every pending request is rejected, with the code and message
\* of a structured reason and with ConnectionEnded otherwise.
CloseRejectsEveryPending ==
    [][\A s \in Ids(socks), reason \in CloseReasons :
          SockClose(s, reason) /\ socks[s].handlers /\ socks[s].ready
             => \A r \in Pending :
                   reqs'[r].st = "rejected" /\ reqs'[r].err = CloseError(reason)]_vars

\* C3: a request settles once the transport has emitted close, in whichever
\* connection state it was issued.  Nothing need follow a close, so the close
\* itself has to settle every request that is waiting.
CloseSettlesEveryPending ==
    [][\A s \in Ids(socks), reason \in CloseReasons :
          SockClose(s, reason) /\ socks[s].handlers
             => \A r \in Pending : reqs'[r].st # "pending"]_vars

\* C4: while an attempt is in flight, connect() starts no new attempt and
\* returns the future of that attempt; every attempt called transport.connect()
\* exactly once.
OneAttemptInFlight ==
    /\ [](/\ InFlight # {} => InFlight = {ConnectResult}
          /\ \A a \in Ids(attempts) :
                Cardinality({c \in Ids(tcalls) : tcalls[c].attempt = a}) = 1)
    /\ [][connect /\ InFlight # {} =>
             /\ UNCHANGED <<tcalls, connectionPromise>>
             /\ Len(attempts') = Len(attempts)
             /\ \A a \in InFlight : attempts'[a].joined]_vars

\* connect() was called again while the attempt was in flight.
WitnessJoinedInFlight == \E a \in InFlight : attempts[a].joined

\* C5: every connect() attempt settles: resolved by READY with its timer
\* cancelled for good, rejected with the transport's error, or rejected with
\* "Connection timed out" when the timer fired, also when the transport opened
\* without READY or never settled.
ConnectSettles ==
    /\ [](\A a \in Ids(attempts) :
            /\ attempts[a].st = "pending" => attempts[a].timer = "armed"
            /\ attempts[a].st = "resolved" => attempts[a].timer = "cleared" /\ attempts[a].ready
            /\ attempts[a].st = "rejected" =>
                  \/ attempts[a].err = RPC_CONNECTION_TIMEOUT /\ attempts[a].timer = "fired"
                  \/ attempts[a].err = NoEndpointError
                        /\ tcalls[attempts[a].call].st = "rejected"
            /\ tcalls[attempts[a].call].st = "rejected" => attempts[a].st # "pending")
    /\ \A a \in 1..MaxAttempts :
          (a \in Ids(attempts)) ~> (a \in Ids(attempts) /\ attempts[a].st # "pending")

\* The timer rejected an attempt whose transport.connect() never settled.
WitnessTimeoutWhileTransportHangs ==
    \E a \in Ids(attempts) :
        /\ attempts[a].st = "rejected" /\ attempts[a].err = RPC_CONNECTION_TIMEOUT
        /\ tcalls[attempts[a].call].st \in {"probing", "hung"}

AllRefusedRejects ==
    \A c \in Ids(tcalls) :
        tcalls[c].st # "probing" /\ tcalls[c].sock = None
           => tcalls[c].st = "rejected" /\ Len(tcalls[c].probed) = NumPorts

\* C8: the candidates are probed one at a time in increasing order from 6463;
\* the call resolves with the socket of the first candidate that opens, probes
\* nothing beyond it, and that socket carries the message and close handlers.
ProbesInOrderUntilFirstOpen ==
    \A c \in Ids(tcalls) :
        /\ Len(tcalls[c].probed) <= NumPorts
        /\ \A j \in 1..Len(tcalls[c].probed) : tcalls[c].probed[j] = BasePort + j - 1
        /\ tcalls[c].st = "resolved" =>
              /\ tcalls[c].sock \in Ids(socks)
              /\ socks[tcalls[c].sock].port = BasePort + Len(tcalls[c].probed) - 1
              /\ socks[tcalls[c].sock].handlers

\* Ports 6463..6471 refused and 6472 opened.
WitnessLastCandidateOpens ==
    \E c \in Ids(tcalls) :
        /\ tcalls[c].st = "resolved" /\ Len(tcalls[c].probed) = NumPorts
        /\ socks[tcalls[c].sock].port = 6472

\* C9: a token reply that lacks access_token, refresh_token, expires_in or
\* token_type makes the login or the refresh fail with the invalid-response
\* error and leaves the tokens, the token type and the refresh timer as they
\* were; that login emits no `ready`.
MalformedReplyChangesNothing ==
    [][/\ \A l \in Ids(logins) :
             logins[l].pc = "token" /\ logins'[l].reply = "incomplete" =>
                /\ logins'[l].pc = "failed"
                /\ logins'[l].err = InvalidTokenResponse.code
                /\ logins'[l].ready = 0
                /\ UNCHANGED <<accessToken, refreshToken, tokenType, refreshTimeout, timers>>
       /\ \A r \in Ids(refreshes) :
             refreshes[r].st = "fetching" /\ refreshes'[r].reply = "incomplete" =>
                /\ refreshes'[r].st = "failed"
                /\ UNCHANGED <<accessToken, refreshToken, tokenType, refreshTimeout, timers>>
      ]_vars

\* A login failed on a malformed reply with no timer scheduled.
WitnessLoginFailsOnMalformedReply ==
    \E l \in Ids(logins) :
        /\ logins[l].pc = "failed" /\ logins[l].reply = "incomplete"
        /\ logins[l].ready = 0 /\ timers = <<>>

\* C10: a refresh timer scheduled before destroy() was called does not fire
\* after it.
NoTimerFiresAfterDestroy ==
    [][\A t \in Ids(timers) :
          RefreshTimerFires(t) => timers[t].born = Len(destroys)]_vars

\* C11: every destroy() call completes: the future of Transport.close() is
\* resolved by a close event, also when there is no socket or the socket is
\* already closed.
DestroyCompletes ==
    \A d \in 1..MaxDestroys :
        (d \in Ids(destroys)) ~> (d \in Ids(destroys) /\ destroys[d] = "done")

\* C12: a login() emits `ready` at most once and only after its connect()
\* resolved; with scopes only after AUTHORIZE, the token exchange and
\* AUTHENTICATE succeeded in that order; without scopes with no request sent; a
\* login() that failed emitted no `ready`.
RequestsOf(l, cmd) == {r \in Ids(reqs) : reqs[r].by = l /\ reqs[r].cmd = cmd}

ReadyOnlyAfterLoginSteps ==
    \A l \in Ids(logins) :
        /\ logins[l].ready <= 1
        /\ logins[l].pc = "failed" => logins[l].ready = 0
        /\ logins[l].ready = 1 =>
              /\ logins[l].pc = "done"
              /\ attempts[logins[l].conn].st = "resolved"
              /\ IF logins[l].scopes
                 THEN /\ logins[l].reply = "complete"
                      /\ \E a \in RequestsOf(l, "AUTHORIZE"), b \in RequestsOf(l, "AUTHENTICATE") :
                            /\ RequestsOf(l, "AUTHORIZE") = {a}
                            /\ RequestsOf(l, "AUTHENTICATE") = {b}
                            /\ a < b
                            /\ reqs[a].st = "resolved" /\ reqs[b].st = "resolved"
                 ELSE {r \in Ids(reqs) : reqs[r].by = l} = {}

\* A login with scopes that went through the RPC token, AUTHORIZE, the token
\* exchange and AUTHENTICATE emitted `ready`.
WitnessScopedLoginReady ==
    \E l \in Ids(logins) :
        logins[l].scopes /\ logins[l].rpc /\ logins[l].pc = "done" /\ logins[l].ready = 1

\* Line 421: every once("close") listener that connect() installed emits
\* `disconnected` when the transport emits close.
DisconnectedEmitted == closeListeners

\* C13: a transport close that follows a completed handshake emits
\* `disconnected` exactly once, and a close of a connection that never
\* completed the handshake emits none.
DisconnectedOncePerClose ==
    [][\A s \in Ids(socks), reason \in CloseReasons :
          SockClose(s, reason) /\ socks[s].handlers
             => DisconnectedEmitted = (IF socks[s].ready THEN 1 ELSE 0)]_vars

\* C14: an entry is in the pending-request table only while its request's
\* future is unsettled; in particular the table holds no rejected request
\* after a close.
TableHoldsOnlyUnsettled == \A r \in _nonceMap : reqs[r].st = "pending"

\* C15: an envelope other than the READY dispatch is emitted to the event
\* subscribers exactly when its nonce matches no pending request; an envelope
\* that settles a request is not emitted.
DispatchedIffUnmatched ==
    [][\A s \in Ids(socks), m \in Frames :
          Message(s, m) /\ ~IsReady(m)
             => /\ Dispatched(m) <=> ~(Matches(m) /\ m.nonce \in Pending)
                /\ Matches(m) /\ m.nonce \in Pending
                      => reqs'[m.nonce].emitted = reqs[m.nonce].emitted]_vars

\* C16: once an attempt has failed, the next connect() starts a fresh attempt:
\* connect() never returns the future of an attempt that was already rejected.
ConnectAfterFailureStartsAfresh ==
    ~StartsAttempt => attempts[ConnectResult].st # "rejected"

\* The sockets that are not closed yet.
Live == {s \in Ids(socks) : socks[s].st \in {"open", "closing"}}

\* C17: a client has at most one open channel: no second socket is opened
\* while an earlier one is still open, and at most one live socket carries the
\* transport's handlers.
AtMostOneChannel == Cardinality(Live) <= 1

\* C18: a credential exchange that was in flight when destroy() was called (a
\* refresh whose timer had fired, a login awaiting the code exchange) sets no
\* token field and arms no timer when its reply arrives after destroy().
NothingSetAfterDestroy ==
    [][/\ \A l \in Ids(logins) :
             /\ logins[l].pc = "token" /\ logins'[l].pc # "token"
             /\ logins[l].born < Len(destroys)
             => UNCHANGED <<accessToken, refreshToken, tokenType, timers, refreshTimeout>>
       /\ \A r \in Ids(refreshes) :
             /\ refreshes[r].st = "fetching" /\ refreshes'[r].st # "fetching"
             /\ refreshes[r].born < Len(destroys)
             => UNCHANGED <<accessToken, refreshToken, tokenType, timers, refreshTimeout>>
      ]_vars

\* C19: destroy() leaves accessToken and refreshToken cleared and no refresh
\* timer armed.  destroy() does all its clearing in the call itself, before it
\* awaits the transport, and nothing clears a token later.
DestroyClearsTokens ==
    [][destroy
          => /\ accessToken' = None
             /\ refreshToken' = None
             /\ \A t \in Ids(timers') : timers'[t].st # "armed"]_vars

\* C20: at most one refresh timer is armed, and it is the one held in
\* refreshTimeout, which destroy() would cancel.
OneArmedRefreshTimer ==
    \A t \in Ids(timers) : timers[t].st = "armed" => t = refreshTimeout
====
